---- MODULE Spec2Model ----
(***************************************************************************)
(* steam-pml-run: runs a target command while preloading (mmap + mlock)    *)
(* the game's files, then unmaps the regions.  Model of src/main.rs.       *)
(*                                                                         *)
(* Sizes are in an abstract unit and the u64 word is scaled down to        *)
(* WordBits bits, so that the wrap-around of the unsigned subtraction in   *)
(* load_file stays observable inside TLC's integer range.                  *)
(***************************************************************************)
EXTENDS Integers, Sequences, FiniteSets, TLC

---------------------------------------------------------------------------
(* Bounds of the model *)
MaxFree == 7        \* sys.free_memory() ranges over 0..MaxFree
MaxSize == 2        \* a file's length ranges over 0..MaxSize
WordBits == 5       \* width of the scaled u64 word

(* Program constants *)
MIN_KEEP_MEM_SIZE == 4

U64Modulus == 2 ^ WordBits

---------------------------------------------------------------------------
(* Option and Result values *)
None == <<>>
Some(x) == <<x>>
Ok(v) == [tag |-> "ok", val |-> v]
Err(m, p, gone) == [tag |-> "err", msg |-> m, path |-> p, vanished |-> gone]
Pending == [tag |-> "pending", val |-> <<>>]
\* the command has no status yet
PendingStatus == [tag |-> "pending", val |-> [code |-> None]]

---------------------------------------------------------------------------
(* Command line arguments.  An argument is one of a few representative     *)
(* strings; the predicates below are what the detection code asks of it.   *)
ArgExe == "lib/steamapps/common/Game/app.exe"
ArgBin == "lib/steamapps/common/Game/app"
ArgNoCommon == "lib/steamapps/app"
ArgAppId == "AppId=1"
ArgPlain == "--fullscreen"

ArgLists ==
  { <<"pml">>,
    <<"pml", "cmd">>,
    <<"pml", "cmd", ArgPlain>>,
    <<"pml", "cmd", ArgAppId>>,
    <<"pml", "cmd", ArgExe>>,
    <<"pml", "cmd", ArgAppId, ArgExe>>,
    <<"pml", "cmd", ArgBin, ArgAppId>>,
    <<"pml", "cmd", ArgAppId, ArgNoCommon>> }

\* arg.contains(STEAM_APPS)
ContainsSteamApps(arg) == arg \in {ArgExe, ArgBin, ArgNoCommon}
\* some ancestor of the path has a parent directory named "common"
HasCommonParent(arg) == arg \in {ArgExe, ArgBin}
\* arg.contains(APP_ID_PREFIX)
ContainsAppIdPrefix(arg) == arg = ArgAppId
\* exefile_path.extension() == "exe"
ExtensionIsExe(arg) == arg = ArgExe

(* The paths that the detected layout leads to *)
GameDir == "Game"
ShaderCacheDir == "shadercache/1"
SteamDll == "common/Steam.dll"
CompatDataDir == "compatdata/1"
Paths == {GameDir, "Game/a", "Game/b", ShaderCacheDir, SteamDll, CompatDataDir}
Children(p) == IF p = GameDir THEN {"Game/a", "Game/b"} ELSE {}
Kinds == {"file", "dir", "other", "missing"}
\* What the walk can find at a path.  The game directory and what is inside
\* it can be anything; Steam.dll is a file, the shader cache and the
\* compatibility data are directories (modelled without children), and each
\* of them can be absent.
KindsOf(p) ==
  IF p = SteamDll THEN {"file", "missing"}
  ELSE IF p \in {ShaderCacheDir, CompatDataDir} THEN {"dir", "missing"}
  ELSE Kinds

SteamGame(arg) ==
  [exefile_path |-> arg, steamapps_dir |-> "lib/steamapps",
   game_dir |-> GameDir, common_dir |-> "lib/steamapps/common"]

\* ditect_steam_game: the first argument that contains "steamapps" decides.
\* Walking its ancestors either meets a parent named "common" or reaches the
\* top, where file_name() is None and the unwrap panics.
RECURSIVE ditect_steam_game(_)
ditect_steam_game(as) ==
  IF as = <<>> THEN [tag |-> "ok", val |-> None]
  ELSE IF ContainsSteamApps(Head(as))
         THEN IF HasCommonParent(Head(as))
                THEN [tag |-> "ok", val |-> Some(SteamGame(Head(as)))]
                ELSE [tag |-> "panic", val |-> None]
         ELSE ditect_steam_game(Tail(as))

RECURSIVE ditect_app_id(_)
ditect_app_id(as) ==
  IF as = <<>> THEN None
  ELSE IF ContainsAppIdPrefix(Head(as)) THEN Some("1")
       ELSE ditect_app_id(Tail(as))

---------------------------------------------------------------------------
VARIABLES
  args,            \* env::args()
  overflow_checks, \* whether the build panics on integer overflow
  kind,            \* what the file system holds at the path being visited
  run_pc,          \* main/run: "main", "zip", "drops", "returned", "done"
  panic,           \* "" or the panic message that ended the process
  rc_pc,           \* run_command: "idle", "running", "done"
  rc_result,
  pl_pc,           \* pre_load_files: "idle", "walking", "done"
  pl_result,
  sys,             \* None or Some(free memory of the snapshot)
  cached_mem_size, \* the value behind the Mutex
  cms_locked,      \* whether the Mutex is held
  stack,           \* load_file_paths activations, innermost last
  path_pc,         \* position inside load_path/load_file/load_dir
  file_size,       \* load_file's local
  mapped,          \* regions currently mapped in the address space
  munmap_count,    \* number of munmap calls per region address
  iter,            \* drops: the regions not yet iterated
  run_result,      \* what run returned
  outcome,         \* how the process ended
  admissions,      \* history: admissions decided so far
  visited,         \* history: the paths whose load_path has started, in order
  created,         \* history: the regions created so far
  first_done       \* history: the branch of zip that completed first

vars == <<args, overflow_checks, kind, run_pc, panic, rc_pc,
          rc_result, pl_pc, pl_result, sys, cached_mem_size, cms_locked,
          stack, path_pc, file_size, mapped, munmap_count, iter, run_result,
          outcome, admissions, visited, created, first_done>>

rcVars == <<rc_pc, rc_result>>
walkVars == <<sys, cached_mem_size, cms_locked, stack, path_pc, file_size,
              mapped, admissions, visited, created>>
plVars == <<pl_pc, pl_result>>
tailVars == <<munmap_count, iter, run_result, outcome>>

Init ==
  /\ args \in ArgLists
  /\ overflow_checks \in BOOLEAN
  /\ kind = "none"
  /\ run_pc = "main"
  /\ panic = ""
  /\ rc_pc = "idle"
  /\ rc_result = PendingStatus
  /\ pl_pc = "idle"
  /\ pl_result = Pending
  /\ sys = None
  /\ cached_mem_size = 0
  /\ cms_locked = FALSE
  /\ stack = <<>>
  /\ path_pc = "none"
  /\ file_size = 0
  /\ mapped = {}
  /\ munmap_count = [p \in Paths |-> 0]
  /\ iter = <<>>
  /\ run_result = Pending
  /\ outcome = [kind |-> "none"]
  /\ admissions = {}
  /\ visited = <<>>
  /\ created = {}
  /\ first_done = "none"

---------------------------------------------------------------------------
(* main, up to block_on(run(args)) *)
Main ==
  /\ run_pc = "main"
  /\ IF Len(args) > 2
       THEN /\ run_pc' = "zip"
            /\ UNCHANGED outcome
       ELSE /\ run_pc' = "done"
            /\ outcome' = [kind |-> "error", msg |-> "Args is not enough."]
  /\ UNCHANGED <<args, overflow_checks, kind, panic, rcVars, plVars,
                 walkVars, munmap_count, iter, run_result, first_done>>

Running == run_pc = "zip" /\ panic = ""

(* run_command: the first future of zip, polled first.  status() spawns. *)
ExitStatuses == {[code |-> Some(0)], [code |-> Some(7)], [code |-> None]}

RunCommandSpawn ==
  /\ Running
  /\ rc_pc = "idle"
  /\ \E spawned \in BOOLEAN :
       IF spawned
         THEN /\ rc_pc' = "running"
              /\ UNCHANGED <<rc_result, first_done>>
         ELSE /\ rc_pc' = "done"
              /\ rc_result' = Err("spawn", "cmd", FALSE)
              /\ first_done' = IF first_done = "none" THEN "rc" ELSE first_done
  /\ UNCHANGED <<args, overflow_checks, kind, run_pc, panic, plVars,
                 walkVars, tailVars>>

CommandExit ==
  /\ Running
  /\ rc_pc = "running"
  /\ \E r \in {Ok(s) : s \in ExitStatuses} \cup {Err("wait", "cmd", FALSE)} :
       rc_result' = r
  /\ rc_pc' = "done"
  /\ first_done' = IF first_done = "none" THEN "rc" ELSE first_done
  /\ UNCHANGED <<args, overflow_checks, kind, run_pc, panic, plVars,
                 walkVars, tailVars>>

---------------------------------------------------------------------------
(* load_file_paths: the tasks are created first and awaited one after the  *)
(* other; a future does nothing until it is awaited.  An activation keeps  *)
(* the paths not yet completed (the first one is being awaited) and mms.   *)
Frame(paths) == [tasks |-> paths, mms |-> <<>>]

\* (variant: `mms = task.await?` instead of mms.append)
RECURSIVE UnwindKeepLast(_, _)
UnwindKeepLast(stk, res) ==
  IF stk = <<>> THEN [stack |-> <<>>, done |-> TRUE, result |-> res]
  ELSE LET top == stk[Len(stk)]
           rest == SubSeq(stk, 1, Len(stk) - 1)
       IN IF res.tag = "err" THEN UnwindKeepLast(rest, res)
          ELSE LET mms == res.val
               IN IF Len(top.tasks) = 1 THEN UnwindKeepLast(rest, Ok(mms))
                  ELSE [stack |-> Append(rest, [tasks |-> Tail(top.tasks),
                                                mms |-> mms]),
                        done |-> FALSE, result |-> Pending]

\* (variant: load_path ignores the error of load_dir's load_file_paths, as
\* with unwrap_or_default, so only an error of a root path is returned)
RECURSIVE UnwindSwallow(_, _)
UnwindSwallow(stk, res) ==
  IF stk = <<>> THEN [stack |-> <<>>, done |-> TRUE, result |-> res]
  ELSE LET top == stk[Len(stk)]
           rest == SubSeq(stk, 1, Len(stk) - 1)
       IN IF res.tag = "err"
            THEN IF rest = <<>> THEN UnwindSwallow(rest, res)
                 ELSE UnwindSwallow(rest, Ok(<<>>))
          ELSE LET mms == top.mms \o res.val
               IN IF Len(top.tasks) = 1 THEN UnwindSwallow(rest, Ok(mms))
                  ELSE [stack |-> Append(rest, [tasks |-> Tail(top.tasks),
                                                mms |-> mms]),
                        done |-> FALSE, result |-> Pending]

\* (variant: every task of the list is awaited and the first error is
\* returned after the last one, as with a join over all tasks)
RECURSIVE UnwindAwaitAll(_, _)
UnwindAwaitAll(stk, res) ==
  IF stk = <<>> THEN [stack |-> <<>>, done |-> TRUE, result |-> res]
  ELSE LET top == stk[Len(stk)]
           rest == SubSeq(stk, 1, Len(stk) - 1)
           failed == "err" \in DOMAIN top
           first == IF failed THEN top.err ELSE res
       IN IF failed \/ res.tag = "err"
            THEN IF Len(top.tasks) = 1 THEN UnwindAwaitAll(rest, first)
                 ELSE [stack |-> Append(rest, [tasks |-> Tail(top.tasks),
                                               mms |-> top.mms,
                                               err |-> first]),
                       done |-> FALSE, result |-> Pending]
          ELSE LET mms == top.mms \o res.val
               IN IF Len(top.tasks) = 1 THEN UnwindAwaitAll(rest, Ok(mms))
                  ELSE [stack |-> Append(rest, [tasks |-> Tail(top.tasks),
                                                mms |-> mms]),
                        done |-> FALSE, result |-> Pending]

\* The value res of the awaited load_path reaches `task.await?`: an error
\* returns from every enclosing load_file_paths/load_dir/load_path (their mms
\* are dropped), a value is appended and the next task is awaited; after the
\* last task the activation returns Ok(mms) to the load_path that called it.
RECURSIVE Unwind(_, _)
Unwind(stk, res) ==
  IF stk = <<>> THEN [stack |-> <<>>, done |-> TRUE, result |-> res]
  ELSE LET top == stk[Len(stk)]
           rest == SubSeq(stk, 1, Len(stk) - 1)
       IN IF res.tag = "err" THEN Unwind(rest, res)
          ELSE LET mms == top.mms \o res.val
               IN IF Len(top.tasks) = 1 THEN Unwind(rest, Ok(mms))
                  ELSE [stack |-> Append(rest, [tasks |-> Tail(top.tasks),
                                                mms |-> mms]),
                        done |-> FALSE, result |-> Pending]

\* load_file_paths(paths) called below the activations stk
Call(stk, paths) ==
  IF paths = <<>> THEN Unwind(stk, Ok(<<>>))
  ELSE [stack |-> Append(stk, Frame(paths)), done |-> FALSE,
        result |-> Pending]

\* the walk moves to the state u computed by Unwind or Call
Resume(u) ==
  /\ stack' = u.stack
  /\ kind' = "none"
  /\ IF u.done
       THEN /\ pl_pc' = "done"
            /\ pl_result' = u.result
            /\ path_pc' = "none"
            /\ first_done' = IF first_done = "none" THEN "pl" ELSE first_done
       ELSE /\ path_pc' = "exists"
            /\ UNCHANGED <<pl_pc, pl_result, first_done>>

Complete(res) == Resume(Unwind(stack, res))

Goto(pc) ==
  /\ path_pc' = pc
  /\ UNCHANGED <<kind, stack, pl_pc, pl_result, first_done>>

Panic(msg) ==
  /\ panic' = msg
  /\ UNCHANGED <<kind, stack, path_pc, pl_pc, pl_result, first_done>>

Walking == Running /\ pl_pc = "walking"
cur == Head(stack[Len(stack)].tasks)

\* (variant: a file that is not pinned fails its load_path)
NoRegionAsError == Err("not pinned", cur, FALSE)

\* load_file's Ok(None), which load_path turns into Ok(vec![])
NoRegion == Ok(<<>>)

\* the sequences that enumerate the set S once each
Orders(S) ==
  { s \in [1..Cardinality(S) -> S] :
      \A i, j \in 1..Cardinality(S) : i # j => s[i] # s[j] }

(* pre_load_files up to the call of load_file_paths; it is the second      *)
(* future of zip, polled after run_command.                                *)
RootPaths(steam_game) ==
  <<steam_game.game_dir, ShaderCacheDir>> \o
  (IF ExtensionIsExe(steam_game.exefile_path)
     THEN <<SteamDll, CompatDataDir>> ELSE <<>>)

PreLoadFiles ==
  /\ Running
  /\ rc_pc # "idle"
  /\ pl_pc = "idle"
  /\ LET rest == SubSeq(args, 3, Len(args))
         sg == ditect_steam_game(rest)
         id == ditect_app_id(rest)
     IN IF sg.tag = "panic"
          THEN /\ Panic("called Option::unwrap() on a None value")
               /\ UNCHANGED sys
          ELSE IF sg.val = None
            THEN /\ stack' = <<>>
                 /\ path_pc' = "none"
                 /\ pl_pc' = "done"
                 /\ pl_result' = Err("Can not find steamapss directory.",
                                     "", FALSE)
                 /\ first_done' =
                      IF first_done = "none" THEN "pl" ELSE first_done
                 /\ UNCHANGED <<sys, panic, kind>>
          ELSE IF id = None
            THEN /\ stack' = <<>>
                 /\ path_pc' = "none"
                 /\ pl_pc' = "done"
                 /\ pl_result' = Err("Can not find steam app id.", "", FALSE)
                 /\ first_done' =
                      IF first_done = "none" THEN "pl" ELSE first_done
                 /\ UNCHANGED <<sys, panic, kind>>
          ELSE /\ \E free \in 0..MaxFree : sys' = Some(free)
               /\ stack' = <<Frame(RootPaths(sg.val[1]))>>
               /\ path_pc' = "exists"
               /\ pl_pc' = "walking"
               /\ UNCHANGED <<pl_result, first_done, panic, kind>>
  /\ UNCHANGED <<args, overflow_checks, run_pc, rcVars,
                 cached_mem_size, cms_locked, file_size, mapped, admissions,
                 visited, created, tailVars>>

(* load_path *)
\* path.exists(): the first look at the path; what is there is an input
PathExists ==
  /\ Walking /\ path_pc = "exists"
  /\ \E k \in KindsOf(cur) :
       IF k # "missing"
         THEN /\ kind' = k
              /\ path_pc' = "is_file"
              /\ UNCHANGED <<stack, pl_pc, pl_result, first_done>>
         ELSE Complete(Ok(<<>>))
  /\ visited' = Append(visited, cur)
  /\ UNCHANGED <<args, overflow_checks, run_pc, panic, rcVars, sys,
                 cached_mem_size, cms_locked, file_size, mapped, admissions,
                 created, tailVars>>

PathIsFile ==
  /\ Walking /\ path_pc = "is_file"
  /\ IF kind = "file" THEN Goto("metadata") ELSE Goto("is_dir")
  /\ UNCHANGED <<args, overflow_checks, run_pc, panic, rcVars, sys,
                 cached_mem_size, cms_locked, file_size, mapped, admissions,
                 visited, created, tailVars>>

PathIsDir ==
  /\ Walking /\ path_pc = "is_dir"
  /\ IF kind = "dir" THEN Goto("read_dir")
     ELSE Complete(Err("unknown path.", cur, kind = "missing"))
  /\ UNCHANGED <<args, overflow_checks, run_pc, panic, rcVars, sys,
                 cached_mem_size, cms_locked, file_size, mapped, admissions,
                 visited, created, tailVars>>

(* load_dir: read_dir, the collection of the entries, load_file_paths *)
LoadDir ==
  /\ Walking /\ path_pc = "read_dir"
  /\ \E io_ok \in BOOLEAN :
       IF kind = "dir" /\ io_ok
         THEN \E entries \in SUBSET Children(cur) :
                \E paths \in Orders(entries) : Resume(Call(stack, paths))
         ELSE Complete(Err("read_dir", cur, kind = "missing"))
  /\ UNCHANGED <<args, overflow_checks, run_pc, panic, rcVars, sys,
                 cached_mem_size, cms_locked, file_size, mapped, admissions,
                 visited, created, tailVars>>

(* load_file *)
LoadFileMetadata ==
  /\ Walking /\ path_pc = "metadata"
  /\ \E io_ok \in BOOLEAN, len \in 0..MaxSize :
       IF kind = "file" /\ io_ok
         THEN /\ file_size' = len
              /\ Goto("lock")
         ELSE /\ UNCHANGED file_size
              /\ Complete(Err("metadata", cur, kind = "missing"))
  /\ UNCHANGED <<args, overflow_checks, run_pc, panic, rcVars, sys,
                 cached_mem_size, cms_locked, mapped, admissions, visited,
                 created, tailVars>>

\* cached_mem_size.lock().await
LoadFileLock ==
  /\ Walking /\ path_pc = "lock"
  /\ ~cms_locked
  /\ cms_locked' = TRUE
  /\ Goto("locked")
  /\ UNCHANGED <<args, overflow_checks, run_pc, panic, rcVars, sys,
                 cached_mem_size, file_size, mapped, admissions, visited,
                 created, tailVars>>

\* u64 arithmetic of a build without overflow checks
SubU64(a, b) == (a - b) % U64Modulus
AddU64(a, b) == (a + b) % U64Modulus

\* let free_mem = sys.free_memory() - lock_size; free_mem > MIN_KEEP_MEM_SIZE
NeedMlock(free_memory, lock_size) ==
  SubU64(free_memory, lock_size) > MIN_KEEP_MEM_SIZE

\* (variant: the guard lives until load_file returns, so an admitted file
\* is opened and mapped with the lock held)
GuardHeldWhileMapping(need_mlock) == need_mlock

\* the MutexGuard cms is dropped at the end of the block that computes
\* need_mlock, whatever the decision: the lock is free afterwards
GuardAfterBlock(need_mlock) == FALSE

\* the block that computes need_mlock
LoadFileDecide ==
  /\ Walking /\ path_pc = "locked"
  /\ LET lock_size == file_size
         free_memory == sys[1]
     IN IF overflow_checks /\ free_memory < lock_size
          THEN /\ Panic("attempt to subtract with overflow")
               /\ UNCHANGED <<cached_mem_size, admissions>>
        ELSE IF NeedMlock(free_memory, lock_size)
          THEN IF overflow_checks
                  /\ cached_mem_size + lock_size >= U64Modulus
                 THEN /\ Panic("attempt to add with overflow")
                      /\ UNCHANGED <<cached_mem_size, admissions>>
                 ELSE /\ cached_mem_size' = AddU64(cached_mem_size, lock_size)
                      /\ admissions' = admissions \cup
                           {[path |-> cur, size |-> lock_size,
                             before |-> cached_mem_size]}
                      /\ Goto("open")
                      /\ UNCHANGED panic
          ELSE /\ Complete(NoRegion)
               /\ UNCHANGED <<cached_mem_size, admissions, panic>>
  /\ file_size' = IF path_pc' = "open" \/ panic' # "" THEN file_size ELSE 0
  /\ cms_locked' = GuardAfterBlock(path_pc' = "open" /\ panic' = "")
  /\ UNCHANGED <<args, overflow_checks, run_pc, rcVars, sys,
                 mapped, visited, created, tailVars>>

LoadFileOpen ==
  /\ Walking /\ path_pc = "open"
  /\ \E io_ok \in BOOLEAN :
       IF kind = "file" /\ io_ok
         THEN /\ Goto("mmap")
              /\ UNCHANGED file_size
         ELSE /\ Complete(Err("open", cur, kind = "missing"))
              /\ file_size' = 0
  /\ UNCHANGED <<args, overflow_checks, run_pc, panic, rcVars, sys,
                 cached_mem_size, cms_locked, mapped, admissions, visited,
                 created, tailVars>>

\* (variant: the length of the region rounded up to the next unit)
MappedMemRounded(addr, len) == [addr |-> addr, len |-> len + 1]

\* MappedMem::new(mem, file_size); the address of a mapping is named after
\* the file it maps
MappedMem(addr, len) == [addr |-> addr, len |-> len]

\* (variant: a failed mapping gives the admitted bytes back to the budget)
LoadFileMmapRollback ==
  /\ Walking /\ path_pc = "mmap"
  /\ \E mmap_ok \in BOOLEAN :
       IF mmap_ok /\ file_size > 0
         THEN /\ mapped' = mapped \cup {MappedMem(cur, file_size)}
              /\ created' = created \cup {MappedMem(cur, file_size)}
              /\ Complete(Ok(<<MappedMem(cur, file_size)>>))
              /\ UNCHANGED cached_mem_size
         ELSE /\ UNCHANGED <<mapped, created>>
              /\ Complete(Ok(<<>>))
              /\ cached_mem_size' = cached_mem_size - file_size
  /\ file_size' = 0
  /\ UNCHANGED <<args, overflow_checks, run_pc, panic, rcVars, sys,
                 cms_locked, admissions, visited, tailVars>>

\* mmap64 and mlock; a mapping of length 0 always fails, the result of mlock
\* is not looked at
LoadFileMmap ==
  /\ Walking /\ path_pc = "mmap"
  /\ \E mmap_ok \in BOOLEAN :
       IF mmap_ok /\ file_size > 0
         THEN /\ mapped' = mapped \cup {MappedMem(cur, file_size)}
              /\ created' = created \cup {MappedMem(cur, file_size)}
              /\ Complete(Ok(<<MappedMem(cur, file_size)>>))
         ELSE /\ UNCHANGED <<mapped, created>>
              /\ Complete(NoRegion)
  /\ file_size' = 0
  /\ UNCHANGED <<args, overflow_checks, run_pc, panic, rcVars, sys,
                 cached_mem_size, cms_locked, admissions, visited, tailVars>>

(* Another process deletes what is at the path being visited, after the    *)
(* walk has seen it exist and before the visit has opened or enumerated it *)
ExternalDelete ==
  /\ Walking
  /\ path_pc \in {"is_file", "is_dir", "metadata", "lock", "locked", "open",
                  "read_dir"}
  /\ kind # "missing"
  /\ kind' = "missing"
  /\ UNCHANGED <<args, overflow_checks, run_pc, panic, rcVars, plVars, sys,
                 cached_mem_size, cms_locked, stack, path_pc, file_size,
                 mapped, admissions, visited, created, tailVars, first_done>>

---------------------------------------------------------------------------
(* run, after zip(...).await *)
\* (variant: a join that waits for the preload only)
ZipReadyPreloadOnly == pl_pc = "done"
\* (variant: a join that waits for the command only)
ZipReadyCommandOnly == rc_pc = "done"

\* smol::future::zip completes when both futures have completed
ZipReady == rc_pc = "done" /\ pl_pc = "done"

\* (variant: the preload's result is unwrapped before the command's)
RunTailPreloadFirst(rc, pl) ==
  IF pl.tag = "err" THEN [ret |-> TRUE, result |-> pl, mems |-> <<>>]
  ELSE IF rc.tag = "err" THEN [ret |-> TRUE, result |-> rc, mems |-> <<>>]
  ELSE [ret |-> FALSE, result |-> Pending, mems |-> pl.val]

\* let status = rc_result?; drops(pl_result?); Ok(status)
\* gives the error run returns early with, or the regions handed to drops
RunTail(rc, pl) ==
  IF rc.tag = "err" THEN [ret |-> TRUE, result |-> rc, mems |-> <<>>]
  ELSE IF pl.tag = "err" THEN [ret |-> TRUE, result |-> pl, mems |-> <<>>]
  ELSE [ret |-> FALSE, result |-> Pending, mems |-> pl.val]

Join ==
  /\ Running
  /\ ZipReady
  /\ LET t == RunTail(rc_result, pl_result)
     IN /\ run_pc' = IF t.ret THEN "returned" ELSE "drops"
        /\ run_result' = t.result
        /\ iter' = t.mems
  /\ UNCHANGED <<args, overflow_checks, kind, panic, rcVars, plVars,
                 walkVars, munmap_count, outcome, first_done>>

\* (variant: an iteration that does not consume the element it released)
DropsRestKeep(mems) == mems

\* for mut mem in mems: the iteration consumes the vector
DropsRest(mems) == Tail(mems)

\* mem.release(): munmap(self.addr, self.len)
DropsRelease ==
  /\ run_pc = "drops"
  /\ iter # <<>>
  /\ LET mem == Head(iter)
     IN /\ mapped' = mapped \ {mem}
        /\ munmap_count' =
             [munmap_count EXCEPT ![mem.addr] = munmap_count[mem.addr] + 1]
  /\ iter' = DropsRest(iter)
  /\ UNCHANGED <<args, overflow_checks, kind, run_pc, panic, rcVars,
                 plVars, sys, cached_mem_size, cms_locked, stack, path_pc,
                 file_size, admissions, visited, created, run_result,
                 outcome, first_done>>

RunReturn ==
  /\ run_pc = "drops"
  /\ iter = <<>>
  /\ run_result' = Ok(rc_result.val)
  /\ run_pc' = "returned"
  /\ UNCHANGED <<args, overflow_checks, kind, panic, rcVars, plVars,
                 walkVars, munmap_count, iter, outcome, first_done>>

(* main, after block_on(run(args)) *)
MainExit ==
  /\ run_pc = "returned"
  /\ outcome' =
       IF run_result.tag = "err"
         THEN [kind |-> "error", msg |-> run_result.msg]
       ELSE IF run_result.val.code # None
         THEN [kind |-> "exit", code |-> run_result.val.code[1]]
       ELSE [kind |-> "error", msg |-> "Unknown exit status."]
  /\ run_pc' = "done"
  /\ UNCHANGED <<args, overflow_checks, kind, panic, rcVars, plVars,
                 walkVars, munmap_count, iter, run_result, first_done>>

---------------------------------------------------------------------------
Next ==
  \/ Main
  \/ RunCommandSpawn
  \/ CommandExit
  \/ PreLoadFiles
  \/ PathExists
  \/ PathIsFile
  \/ PathIsDir
  \/ LoadDir
  \/ LoadFileMetadata
  \/ LoadFileLock
  \/ LoadFileDecide
  \/ LoadFileOpen
  \/ LoadFileMmap
  \/ ExternalDelete
  \/ Join
  \/ DropsRelease
  \/ RunReturn
  \/ MainExit

Spec == Init /\ [][Next]_vars

\* a step of the program itself (not of another process, not the command's
\* termination)
ProgramStep ==
  \/ Main \/ RunCommandSpawn \/ PreLoadFiles \/ PathExists \/ PathIsFile
  \/ PathIsDir \/ LoadDir \/ LoadFileMetadata \/ LoadFileLock
  \/ LoadFileDecide \/ LoadFileOpen \/ LoadFileMmap \/ Join
  \/ DropsRelease \/ RunReturn \/ MainExit

\* The executor keeps polling a future that can make progress, and the
\* command terminates.
FairSpec == Spec /\ WF_vars(ProgramStep) /\ WF_vars(CommandExit)

---------------------------------------------------------------------------
(* Properties *)

\* run has left zip(...).await
Joined ==
  run_pc \in {"drops", "returned"} \/ (run_pc = "done" /\ Len(args) > 2)

\* a step of the preload branch
PreloadStep ==
  \/ PreLoadFiles \/ PathExists \/ PathIsFile \/ PathIsDir \/ LoadDir
  \/ LoadFileMetadata \/ LoadFileLock \/ LoadFileDecide \/ LoadFileOpen
  \/ LoadFileMmap

\* C1: at every admission, free memory of the snapshot minus the bytes
\* admitted before minus the candidate's size is above the reserve floor, so
\* the counter never exceeds snapshot - floor.  Stated for the admissions whose
\* subtraction does not wrap (the wrapping ones are C10's).
C1_BudgetNeverExceeded ==
  sys # None =>
    \A a \in admissions :
      a.size <= sys[1] =>
        /\ sys[1] - a.before - a.size > MIN_KEEP_MEM_SIZE
        /\ a.before + a.size <= sys[1] - MIN_KEEP_MEM_SIZE

\* C2: when run has returned, no region is still mapped.
C2_AllReleasedAtReturn ==
  run_pc \in {"returned", "done"} => mapped = {}

\* C3: no region is released more than once, and a released region is not
\* among the regions still held by drops.
C3_ReleasedAtMostOnce ==
  /\ \A p \in Paths : munmap_count[p] <= 1
  /\ \A i \in 1..Len(iter) : munmap_count[iter[i].addr] = 0

C3_Witness ==
  /\ run_pc = "drops"
  /\ iter # <<>>
  /\ \E p \in Paths : munmap_count[p] = 1

\* C4: a region is released only after the command and the preload have both
\* completed.
C4_ReleaseAfterBothBranches ==
  (\E p \in Paths : munmap_count[p] > 0) =>
     rc_pc = "done" /\ pl_pc = "done"

C4_Witness ==
  /\ \E p \in Paths : munmap_count[p] = 1
  /\ mapped = {}
  /\ run_pc = "returned"

\* C5: when the layout or the application id cannot be detected, the command
\* is never started and no file is admitted or mapped.
Undetectable ==
  LET rest == SubSeq(args, 3, Len(args))
  IN ditect_steam_game(rest).val = None \/ ditect_app_id(rest) = None

C5_NoWorkWhenUndetectable ==
  Undetectable => rc_pc = "idle" /\ admissions = {} /\ mapped = {}

\* C6: run is past the join only when both branches have completed; while it
\* waits, a completed command leaves the preload able to go on and a completed
\* preload leaves the command able to complete.
C6_StructuredJoin ==
  /\ Joined => rc_pc = "done" /\ pl_pc = "done"
  /\ (Running /\ rc_pc = "done" /\ pl_pc = "walking") => ENABLED PreloadStep
  /\ (Running /\ pl_pc = "done" /\ rc_pc = "running") => ENABLED CommandExit

C6_Witness ==
  /\ Joined
  /\ first_done = "rc"
  /\ pl_result.tag = "ok"
  /\ pl_result.val # <<>>

\* C7: the reported outcome is the command's error if the command failed,
\* else the preload's error if the preload failed, else the command's exit
\* code, or the unknown exit status error when there is no code.
Reported(rc, pl) ==
  IF rc.tag = "err" THEN [kind |-> "error", msg |-> rc.msg]
  ELSE IF pl.tag = "err" THEN [kind |-> "error", msg |-> pl.msg]
  ELSE IF rc.val.code # None THEN [kind |-> "exit", code |-> rc.val.code[1]]
  ELSE [kind |-> "error", msg |-> "Unknown exit status."]

C7_ReportedOutcome ==
  (run_pc = "done" /\ Len(args) > 2) =>
     outcome = Reported(rc_result, pl_result)

C7_Witness ==
  /\ run_pc = "done"
  /\ rc_result.tag = "ok"
  /\ pl_result.tag = "err"
  /\ outcome = [kind |-> "error", msg |-> pl_result.msg]

\* C8: a command that exited with code 7 decides the reported exit code also
\* when the preload failed.
C8_CommandCodeWins ==
  (run_pc = "done" /\ rc_result = Ok([code |-> Some(7)])
     /\ pl_result.tag = "err")
    => outcome = [kind |-> "exit", code |-> 7]

\* C9: the preload never fails because of a path that does not exist, also
\* when the path is deleted during its visit.
C9_DeletionTolerated ==
  pl_result.tag = "err" => ~pl_result.vanished

\* C10: a candidate with free memory - size <= reserve floor in exact
\* arithmetic is rejected: it is never admitted and load_file neither fails
\* nor panics on it.
C10_RejectUnderPressure ==
  sys # None =>
    /\ \A a \in admissions : sys[1] - a.size > MIN_KEEP_MEM_SIZE
    /\ panic # "attempt to subtract with overflow"

\* C11: the counter starts at 0 and never decreases: it grows by exactly the
\* candidate's size in the step that admits it and no other step changes it
\* (not a rejection, not a failed mapping, not a release).
C11_CounterOnlyGrows ==
  /\ cached_mem_size = 0
  /\ [][ /\ cached_mem_size' >= cached_mem_size
         /\ IF path_pc = "locked" /\ path_pc' = "open"
              THEN cached_mem_size' = cached_mem_size + file_size
              ELSE cached_mem_size' = cached_mem_size ]_vars

\* an admitted file whose mapping failed: the preload went on to success
\* without a region for it, and the counter still holds its bytes
C11_Witness ==
  /\ pl_pc = "done"
  /\ pl_result.tag = "ok"
  /\ cached_mem_size > 0
  /\ \E a \in admissions :
       /\ a.size > 0
       /\ \A i \in 1..Len(pl_result.val) : pl_result.val[i].addr # a.path

Range(seq) == {seq[i] : i \in 1..Len(seq)}
Pos(p) == CHOOSE i \in 1..Len(visited) : visited[i] = p

\* the children of the game directory that the walk was handed and visited
DirFiles == Children(GameDir) \cap Range(visited)

\* C12: a directory whose N files were all admitted and mapped yields exactly
\* N regions, one per file, whatever the order of enumeration.
C12_DirectoryAggregation ==
  (/\ pl_pc = "done"
   /\ pl_result.tag = "ok"
   /\ \A c \in DirFiles : \E r \in created : r.addr = c)
  => LET val == pl_result.val
         regs == {i \in 1..Len(val) : val[i].addr \in Children(GameDir)}
     IN /\ Cardinality(regs) = Cardinality(DirFiles)
        /\ \A c \in DirFiles :
              \E i \in regs : val[i].addr = c /\ val[i] \in created

\* two files, enumerated in the order b, a, both pinned
C12_Witness ==
  /\ pl_pc = "done"
  /\ pl_result.tag = "ok"
  /\ DirFiles = Children(GameDir)
  /\ \A c \in DirFiles : \E r \in created : r.addr = c
  /\ Pos("Game/b") < Pos("Game/a")

\* C13: the walks of the paths of one list are started together: once the
\* first path of a list has started, every other path of the list has too.
C13_SiblingsStartedTogether ==
  \A f \in 1..Len(stack) :
    LET t == stack[f].tasks
    IN (Len(t) >= 2 /\ t[1] \in Range(visited))
         => \A j \in 2..Len(t) : t[j] \in Range(visited)

\* C14: the lock is held only inside the block that reads, decides and
\* updates: never at a metadata read, an open, a mapping, an enumeration or
\* any other point of the walk, and not after the preload has finished.
C14_LockOnlyAroundDecision ==
  cms_locked => (pl_pc = "walking" /\ path_pc = "locked")

C14_Witness ==
  /\ cms_locked
  /\ path_pc = "locked"
  /\ cached_mem_size > 0

\* the paths handed to a load_file_paths whose walk has not started
Unstarted(stk) ==
  UNION { {stk[i].tasks[j] : j \in 2..Len(stk[i].tasks)} :
            i \in 1..Len(stk) }

\* a step in which load_file gives up a file: rejection, or failed mapping
SoftFailureStep ==
  /\ pl_pc = "walking"
  /\ stack' # stack
  /\ path_pc = "locked" \/ (path_pc = "mmap" /\ created' = created)

\* C15: a rejection or a failed mapping is no error, and the walk goes on
\* with the next path: no path still to be visited is given up.
C15_SoftFailureAbsorbed ==
  [][ SoftFailureStep =>
        /\ pl_result'.tag # "err"
        /\ panic' = ""
        /\ created' = created
        /\ IF Unstarted(stack) = {}
             THEN pl_pc' = "done" /\ pl_result'.tag = "ok"
             ELSE /\ pl_pc' = "walking"
                  /\ path_pc' = "exists"
                  /\ Unstarted(stack) =
                       Unstarted(stack')
                         \cup {Head(stack'[Len(stack')].tasks)} ]_vars

\* a file was admitted and not mapped, and a path visited after it was pinned
C15_Witness ==
  \E a \in admissions, r \in created :
    /\ \A q \in created : q.addr # a.path
    /\ Pos(a.path) < Pos(r.addr)

\* a step in which load_path meets a path that is neither file nor
\* directory, or load_dir cannot enumerate
HardFailureStep ==
  /\ pl_pc = "walking"
  /\ stack' # stack
  /\ path_pc \in {"is_dir", "read_dir"}
  /\ kind # "dir"

\* C16: an unknown kind of path or a failed enumeration ends the preload with
\* that error, from whatever depth; a failed preload has no activation left
\* and hands no region to run, which returns an error.
C16_HardFailurePropagates ==
  /\ [](pl_result.tag = "err" =>
          /\ pl_pc = "done"
          /\ stack = <<>>
          /\ iter = <<>>
          /\ \A p \in Paths : munmap_count[p] = 0
          /\ run_pc \in {"returned", "done"} => run_result.tag = "err")
  /\ [][ HardFailureStep =>
           /\ pl_pc' = "done"
           /\ pl_result'.tag = "err"
           /\ pl_result'.path = cur ]_vars

C16_Witness ==
  /\ pl_result.tag = "err"
  /\ pl_result.msg = "unknown path."
  /\ pl_result.path \in Children(GameDir)
  /\ ~pl_result.vanished
  /\ created # {}
  /\ run_pc = "returned"

\* C17: under fair scheduling every acquired lock is released and run
\* eventually returns.
C17_RunReturns ==
  /\ cms_locked ~> ~cms_locked
  /\ (run_pc = "zip") ~> (run_pc \in {"returned", "done"})

\* the root paths of the run
Roots ==
  LET sg == ditect_steam_game(SubSeq(args, 3, Len(args)))
  IN IF sg.val = None THEN <<>> ELSE RootPaths(sg.val[1])

\* C18: the paths of a list are visited in list order, and the path that
\* fails is the last path ever visited: nothing is admitted, counted or mapped
\* for a path that was not visited.
C18_StopsAtFirstFailure ==
  /\ \A i, j \in 1..Len(Roots) :
       (i < j /\ Roots[j] \in Range(visited))
         => (Roots[i] \in Range(visited) /\ Pos(Roots[i]) < Pos(Roots[j]))
  /\ \A a \in admissions : a.path \in Range(visited)
  /\ \A r \in created : r.addr \in Range(visited)
  /\ pl_result.tag = "err" =>
       IF pl_result.path = "" THEN visited = <<>>
       ELSE visited # <<>> /\ visited[Len(visited)] = pl_result.path

\* the shader cache directory failed and the two roots after it were never
\* visited
C18_Witness ==
  /\ pl_result.tag = "err"
  /\ pl_result.path = ShaderCacheDir
  /\ Len(Roots) = 4
  /\ SteamDll \notin Range(visited)
  /\ CompatDataDir \notin Range(visited)
  /\ run_pc = "done"

RECURSIVE SumLen(_)
SumLen(regions) ==
  IF regions = {} THEN 0
  ELSE LET r == CHOOSE x \in regions : TRUE
       IN r.len + SumLen(regions \ {r})

\* C19: the lengths of the regions created so far sum to at most the counter,
\* and every region has the length that was admitted for its file.
C19_RegionsWithinCounter ==
  /\ SumLen(created) <= cached_mem_size
  /\ \A r \in created :
       \E a \in admissions : a.path = r.addr /\ a.size = r.len

C19_Witness ==
  /\ Cardinality(created) >= 2
  /\ SumLen(created) < cached_mem_size
====
